---- MODULE Spec2Model ----
(***************************************************************************)
(* Gesture-to-pointer pipeline of handy: the index-finger Pointer          *)
(* (src/src/tracking/pointer.py), the gesture aggregator                   *)
(* GestureDetector.detect_gestures (src/src/tracking/gestures.py), the     *)
(* MouseController (src/src/control/mouse_controller.py) and the frame     *)
(* loop MainWindow.process_frames (src/app.py).                            *)
(*                                                                         *)
(* Units.  Time is counted in units of 10 ms (click_cooldown 0.05 s = 5).  *)
(* Pixel deltas are fixed-point thousandths of a pixel (dead zone 0.8 px   *)
(* = 800); with the sensitivities and palm sizes drawn below every product *)
(* and blend of update_mouse is an exact integer in that unit.             *)
(* Confidences are percent, scroll directions tenths of a scroll unit.  The *)
(* smoothed pointer position is computed in  *)
(* exact rational arithmetic and truncated as int() does; binary floating  *)
(* point can land one pixel lower when the exact quotient is an integer.   *)
(***************************************************************************)
EXTENDS Integers, Sequences, FiniteSets, TLC

VARIABLES
    \* Pointer('index'), the primary pointer of the PointerTracker
    position, prev_positions,
    \* PointerTracker
    pointer_active,
    \* MouseController
    last_raw_position, last_delta, position_history, is_moving,
    left_button_down, right_button_down, last_click_time, sensitivity,
    \* MainWindow
    current_gestures,
    \* time.time()
    now,
    \* the calls made on the output sink (pyautogui) by the last frame, in order
    emitted,
    \* what the last iteration of process_frames saw and the state it started from
    frame,
    \* what has happened so far: a hand was seen, a frame without a hand has come
    \* since and update_mouse was not called after it, the times of the last
    \* button call and of the last button-down given to the sink
    log,
    \* number of frames processed
    frames,
    \* the while loop of process_frames: "running", or "terminated" by an exception
    processing,
    \* GestureDetector.detect_gestures: the five futures, the as_completed loop
    fut, yielded, gestures, dg_pc, expired, last_gestures,
    \* number of detect_gestures calls started
    calls,
    \* MainWindow: the QTimer, the flag and the queue shared by the GUI thread and
    \* the processing threads, self.processing_thread (0: None)
    timer_active, is_processing, frame_queue, processing_thread,
    \* where every thread created by toggle_camera is in process_frames
    threads,
    \* where the GUI thread is in update_frame or toggle_camera, and the frame
    \* update_frame is handling
    gui_pc, gui_frame,
    \* frames captured so far (frames are numbered in capture order), the last
    \* frame for which update_frame returned, the frames taken by a consumer
    captured, offered, taken,
    \* the last snapshot given to the classifiers and what they made of it
    classified,
    \* Settings.current, GestureDetector.config, the dead_zone attribute given to
    \* the MouseController, and what was last done to the settings: "constructed"
    \* (MainWindow.__init__), "edited" (a slider moved) or "applied"
    settings, config, dead_zone, settings_pc,
    \* MainWindow.processed_frame_queue, holding the numbers of the threads that
    \* published
    processed_frame_queue

pointer_vars == <<position, prev_positions, pointer_active>>
mouse_vars == <<last_raw_position, last_delta, position_history, is_moving,
                left_button_down, right_button_down, last_click_time, sensitivity>>
loop_vars == <<current_gestures, now, emitted, frame, log, frames, processing>>
detect_vars == <<fut, yielded, gestures, dg_pc, expired, last_gestures, calls>>
thread_vars == <<timer_active, is_processing, frame_queue, processing_thread,
                 threads, gui_pc, gui_frame, captured, offered, taken>>
snapshot_vars == <<classified>>
settings_vars == <<settings, config, dead_zone, settings_pc>>
publish_vars == <<processed_frame_queue>>
vars == <<pointer_vars, mouse_vars, loop_vars, detect_vars, thread_vars, snapshot_vars,
         settings_vars, publish_vars>>

----------------------------------------------------------------------------
\* Bounds of the model

\* frames processed in one behaviour of Spec, of SpecButtons and of SpecSink
MaxFrames == 3
MaxClickFrames == 4
MaxSinkFrames == 3
MaxSettingsFrames == 3
MaxReleaseFrames == 3

\* processing threads created and frames captured in one behaviour of SpecThreads
MaxThreads == 2
MaxCaptured == 3

\* index fingertip positions (pixels) a frame can carry
Positions == {<<0, 0>>, <<3, 20>>}

\* palm sizes get_palm_size can return: a near hand (scaling 0.25, kept at 0.5)
\* in Spec, the calibration distance (scaling 1.0) in SpecButtons
PalmSizes == {440}

\* time between two frames, in units of 10 ms: a 30 ms timer tick, a slow frame
FrameIntervals == {3, 6}

\* values of the 'mouse_sensitivity' setting (menu range 1.0 .. 15.0)
Sensitivities == {1, 6}

\* Python's None, and an attribute that was never assigned
None == <<>>

----------------------------------------------------------------------------
\* Gesture maps: Python dicts from gesture name to value

EmptyMap == [k \in {} |-> 0]

\* dict.update
Update(g, r) == [k \in DOMAIN g \cup DOMAIN r |-> IF k \in DOMAIN r THEN r[k] ELSE g[k]]

----------------------------------------------------------------------------
\* Pointer (src/src/tracking/pointer.py).  Only the primary pointer 'index' is
\* read by the pipeline; get_fingertips always delivers an 'index' point.

history_size == 5

\* Pointer.__init__: position, prev_positions
PointerInit == [position |-> <<0, 0>>, prev_positions |-> <<>>]

\* Pointer.update_position(p) on a pointer at pos with history prev: the old
\* position is pushed on the history (oldest dropped beyond history_size), then
\* the position is replaced
update_position(pos, prev, p) ==
    LET appended == Append(prev, pos)
    IN  [position |-> p,
         prev_positions |-> IF Len(appended) > history_size THEN Tail(appended)
                            ELSE appended]

RECURSIVE Pow(_, _)
Pow(b, n) == IF n = 0 THEN 1 ELSE b * Pow(b, n - 1)

RECURSIVE SumTo(_, _)
\* f[1] + ... + f[n]
SumTo(f, n) == IF n = 0 THEN 0 ELSE f[n] + SumTo(f, n - 1)

\* weights = [0.7 ** (len(positions) - i) for i in range(len(positions))],
\* every weight multiplied by 10 ** len(positions); k is the 1-based index i + 1
SmoothingWeights(n) == [k \in 1..n |-> Pow(7, n - (k - 1)) * Pow(10, k - 1)]

\* Pointer.get_smoothed_position
get_smoothed_position(pos, prev) ==
    IF prev = <<>> THEN pos
    ELSE LET positions == Append(prev, pos)
             n == Len(positions)
             weights == SmoothingWeights(n)
             weight_sum == SumTo(weights, n)
             x_sum == SumTo([k \in 1..n |-> positions[k][1] * weights[k]], n)
             y_sum == SumTo([k \in 1..n |-> positions[k][2] * weights[k]], n)
         IN  <<x_sum \div weight_sum, y_sum \div weight_sum>>

----------------------------------------------------------------------------
\* GestureDetector (src/src/tracking/gestures.py): the classifiers as the
\* aggregator sees them, and detect_gestures

Classifiers == {"left_click", "right_click", "move_gesture", "drag_gesture",
                "scroll_gesture"}

\* confidences (percent) and scroll directions (tenths) a classifier can report:
\* -2.5 is the speed of straight fingers pointing up with 'scroll_base_speed' and
\* 'scroll_max_speed' both set to 2.5
ConfLevels == {70}
ScrollDirections == {-25}

\* right_click reporting under the key of left_click, with another confidence
ClassifierReturnsSharedKey(c) ==
    {EmptyMap} \cup
    CASE c = "left_click"     -> {"left_click" :> v : v \in ConfLevels}
      [] c = "right_click"    -> {"left_click" :> v - 40 : v \in ConfLevels}
      [] c = "move_gesture"   -> {"move" :> v : v \in ConfLevels}
      [] c = "drag_gesture"   -> {"drag" :> v : v \in ConfLevels}
      [] c = "scroll_gesture" -> {("scroll" :> v) @@ ("scroll_direction" :> d) :
                                      v \in ConfLevels, d \in ScrollDirections}

\* the dicts a classifier can return: {} or its own entry (scroll: two entries)
ClassifierReturns(c) ==
    {EmptyMap} \cup
    CASE c = "left_click"     -> {"left_click" :> v : v \in ConfLevels}
      [] c = "right_click"    -> {"right_click" :> v : v \in ConfLevels}
      [] c = "move_gesture"   -> {"move" :> v : v \in ConfLevels}
      [] c = "drag_gesture"   -> {"drag" :> v : v \in ConfLevels}
      [] c = "scroll_gesture" -> {("scroll" :> v) @@ ("scroll_direction" :> d) :
                                      v \in ConfLevels, d \in ScrollDirections}

\* classifiers that can raise on a well-formed snapshot: drag_gesture divides by
\* the knuckle-to-palm-centre distance, which is 0 when the two points coincide
Raisers == {"drag_gesture"}

\* a future: pending, or finished with a returned dict or with an exception
PendingFuture == [state |-> "pending", result |-> EmptyMap]
FinishedFutures(c) ==
    {[state |-> "returned", result |-> r] : r \in ClassifierReturns(c)} \cup
    (IF c \in Raisers THEN {[state |-> "raised", result |-> EmptyMap]} ELSE {})

RECURSIVE MergeResults(_, _)
\* gestures.update(result) for every future of S that returned
MergeResults(f, S) ==
    IF S = {} THEN EmptyMap
    ELSE LET c == CHOOSE x \in S : TRUE
             rest == MergeResults(f, S \ {c})
         IN  IF f[c].state = "returned" THEN Update(rest, f[c].result) ELSE rest

\* detect_gestures calls made in one behaviour of SpecDetect
MaxCalls == 1

\* detect_gestures, lines 521-530: the five classifiers are submitted to the pool
\* and the collection starts with an empty dict and a fresh 50 ms deadline
Submit ==
    /\ dg_pc \in {"idle", "returned", "timeout"}
    /\ calls < MaxCalls
    /\ calls' = calls + 1
    /\ fut' = [c \in Classifiers |-> PendingFuture]
    /\ yielded' = {}
    /\ gestures' = EmptyMap
    /\ expired' = FALSE
    /\ dg_pc' = "collecting"
    /\ UNCHANGED <<last_gestures, pointer_vars, mouse_vars, loop_vars,
                   thread_vars, snapshot_vars, settings_vars, publish_vars>>

\* a pool worker finishes classifier c: it returns a dict or raises
Finish(c) ==
    /\ dg_pc = "collecting"
    /\ fut[c].state = "pending"
    /\ \E f \in FinishedFutures(c) : fut' = [fut EXCEPT ![c] = f]
    /\ UNCHANGED <<yielded, gestures, dg_pc, expired,
                   last_gestures, calls, pointer_vars, mouse_vars, loop_vars,
                   thread_vars, snapshot_vars, settings_vars, publish_vars>>

\* 50 ms have passed since as_completed was called
DeadlineExpires ==
    /\ dg_pc = "collecting"
    /\ ~expired
    /\ expired' = TRUE
    /\ UNCHANGED <<fut, yielded, gestures, dg_pc, last_gestures, calls,
                   pointer_vars, mouse_vars, loop_vars,
                   thread_vars, snapshot_vars, settings_vars, publish_vars>>

\* a loop body without the handler of line 539: the exception leaves the call
CollectRaisedPropagates(g) == [gestures |-> g, dg_pc |-> "faulted"]

\* the body of the for loop, lines 532-540, for a future whose task raised:
\* future.result() re-raises inside the try and the handler logs it
CollectRaised(g) == [gestures |-> g, dg_pc |-> "collecting"]

\* the body of the for loop for a future whose task returned r
CollectReturned(g, r) == [gestures |-> Update(g, r), dg_pc |-> "collecting"]

\* as_completed yields the finished future c and the loop body runs on it
Yield(c) ==
    /\ dg_pc = "collecting"
    /\ c \notin yielded
    /\ fut[c].state # "pending"
    /\ yielded' = yielded \cup {c}
    /\ LET after == IF fut[c].state = "raised" THEN CollectRaised(gestures)
                    ELSE CollectReturned(gestures, fut[c].result)
       IN  /\ gestures' = after.gestures
           /\ dg_pc' = after.dg_pc
    /\ UNCHANGED <<fut, expired, last_gestures, calls,
                   pointer_vars, mouse_vars, loop_vars,
                   thread_vars, snapshot_vars, settings_vars, publish_vars>>

\* as_completed finds the deadline passed while futures are still to be yielded
\* and raises TimeoutError from the for statement, outside the try of the loop
\* body: detect_gestures propagates it and lines 542-546 do not run
TimeoutRaised ==
    /\ dg_pc = "collecting"
    /\ expired
    /\ yielded # Classifiers
    /\ dg_pc' = "timeout"
    /\ UNCHANGED <<fut, yielded, gestures, expired,
                   last_gestures, calls, pointer_vars, mouse_vars, loop_vars,
                   thread_vars, snapshot_vars, settings_vars, publish_vars>>

\* lines 542-546: every future was yielded; the dict is cached and returned
Return ==
    /\ dg_pc = "collecting"
    /\ yielded = Classifiers
    /\ last_gestures' = gestures
    /\ dg_pc' = "returned"
    /\ UNCHANGED <<fut, yielded, gestures, expired, calls,
                   pointer_vars, mouse_vars, loop_vars,
                   thread_vars, snapshot_vars, settings_vars, publish_vars>>

\* One whole call of detect_gestures.  run gives every future as the collection
\* left it: finished and yielded, or still to be yielded ("pending") when
\* as_completed gave up.  The call raises TimeoutError in the second case and
\* returns the merged dict otherwise.
detect_gestures(run) ==
    IF \E c \in Classifiers : run[c].state = "pending"
    THEN [raised |-> TRUE, map |-> EmptyMap]
    ELSE [raised |-> FALSE, map |-> MergeResults(run, Classifiers)]

AggregatorRuns == [c \in Classifiers |-> FinishedFutures(c) \cup {PendingFuture}]

\* every outcome a call of detect_gestures can have
DetectOutcomes ==
    {detect_gestures(run) :
        run \in {f \in [Classifiers -> UNION {AggregatorRuns[c] : c \in Classifiers}] :
                    \A c \in Classifiers : f[c] \in AggregatorRuns[c]}}

----------------------------------------------------------------------------
\* MouseController (src/src/control/mouse_controller.py)

click_cooldown == 5
base_palm_size == 110
\* the local dead_zone of update_mouse, 0.8 px
dead_zone_px == 800

Abs(v) == IF v < 0 THEN -v ELSE v
Sign(v) == IF v < 0 THEN -1 ELSE IF v > 0 THEN 1 ELSE 0
Max(a, b) == IF a > b THEN a ELSE b
Min(a, b) == IF a < b THEN a ELSE b

\* calls on the output sink
MoveRel(dx, dy) == [kind |-> "move", button |-> "none", dx |-> dx, dy |-> dy, amount |-> 0]
MouseDown(b) == [kind |-> "down", button |-> b, dx |-> 0, dy |-> 0, amount |-> 0]
MouseUp(b) == [kind |-> "up", button |-> b, dx |-> 0, dy |-> 0, amount |-> 0]
Scroll(a) == [kind |-> "scroll", button |-> "none", dx |-> 0, dy |-> 0, amount |-> a]

\* MouseController.__init__ with the 'mouse_sensitivity' setting s; last_delta
\* and position_history are not attributes yet
ControllerInit(s) ==
    [last_raw_position |-> None, last_delta |-> None, position_history |-> None,
     is_moving |-> FALSE, left_button_down |-> FALSE, right_button_down |-> FALSE,
     last_click_time |-> 0, sensitivity |-> s]

\* drag alone taken as enough to move
should_move_on_any_drag(g, left_down, right_down) ==
    "move" \in DOMAIN g \/ "drag" \in DOMAIN g

\* lines 57-66: move, or drag together with a click gesture or a held button
should_move(g, left_down, right_down) ==
    \/ "move" \in DOMAIN g
    \/ /\ "drag" \in DOMAIN g
       /\ \/ left_down
          \/ right_down
          \/ "left_click" \in DOMAIN g
          \/ "right_click" \in DOMAIN g

\* lines 71-88, in thousandths: sensitivity scaled by base_palm_size / palm_size
\* kept within [0.5, 2.0]; unscaled when the palm size is not positive
effective_sensitivity(sens, palm) ==
    IF palm > 0
    THEN sens * Max(500, Min((base_palm_size * 1000) \div palm, 2000))
    ELSE sens * 1000

\* lines 104-105: the hand's displacement on one axis times -effective_sensitivity
axis_delta(raw, last, eff) == (raw - last) * (-eff)

\* lines 112-120: below the dead zone 0, else reduced by the dead zone
apply_dead_zone(d) ==
    IF Abs(d) < dead_zone_px THEN 0 ELSE (Abs(d) - dead_zone_px) * Sign(d)

\* the inversion of lines 125-126 left out
invert_missing(d) == d

\* lines 125-126: the movement direction is inverted
invert(d) == -d

\* lines 129-133: 0.7 of the delta plus 0.3 of the stored last_delta, when the
\* attribute exists
smooth_delta(d, has_last, last) == IF has_last THEN (d * 7 + last * 3) \div 10 ELSE d

\* lines 139-140: the smoothed delta times 1.5
movement(smooth) == (smooth * 3) \div 2

\* a first detection that seeds the history with a single entry
initialize_tracking_unseeded(c, pointer_pos) ==
    [c EXCEPT !.last_raw_position = pointer_pos,
              !.last_delta = <<0, 0>>,
              !.position_history = <<pointer_pos>>]

\* lines 91-96: first detection
initialize_tracking(c, pointer_pos) ==
    [c EXCEPT !.last_raw_position = pointer_pos,
              !.last_delta = <<0, 0>>,
              !.position_history = [k \in 1..5 |-> pointer_pos]]

\* a button pressed again in every frame in which its gesture is present
button_step_repeating(b, present, down, lct, t) ==
    IF present
    THEN [down |-> TRUE, last_click_time |-> t, sink |-> <<MouseDown(b)>>]
    ELSE IF down
         THEN [down |-> FALSE, last_click_time |-> lct, sink |-> <<MouseUp(b)>>]
         ELSE [down |-> down, last_click_time |-> lct, sink |-> <<>>]

\* lines 157-166 (169-178): one button; down and lct are the held flag and
\* last_click_time, t the current time
button_step(b, present, down, lct, t) ==
    IF present
    THEN IF ~down
         THEN [down |-> TRUE, last_click_time |-> t, sink |-> <<MouseDown(b)>>]
         ELSE [down |-> down, last_click_time |-> lct, sink |-> <<>>]
    ELSE IF down
         THEN [down |-> FALSE, last_click_time |-> lct, sink |-> <<MouseUp(b)>>]
         ELSE [down |-> down, last_click_time |-> lct, sink |-> <<>>]

\* both buttons handled without the cooldown test of line 155
handle_buttons_without_cooldown(c, g, t) ==
    LET l == button_step("left", "left_click" \in DOMAIN g,
                         c.left_button_down, c.last_click_time, t)
        r == button_step("right", "right_click" \in DOMAIN g,
                         c.right_button_down, l.last_click_time, t)
    IN  [left_button_down |-> l.down, right_button_down |-> r.down,
         last_click_time |-> r.last_click_time, sink |-> l.sink \o r.sink]

\* lines 155-178: both buttons, once the cooldown since last_click_time is over
handle_buttons(c, g, t) ==
    IF t - c.last_click_time > click_cooldown
    THEN LET l == button_step("left", "left_click" \in DOMAIN g,
                              c.left_button_down, c.last_click_time, t)
             r == button_step("right", "right_click" \in DOMAIN g,
                              c.right_button_down, l.last_click_time, t)
         IN  [left_button_down |-> l.down, right_button_down |-> r.down,
              last_click_time |-> r.last_click_time, sink |-> l.sink \o r.sink]
    ELSE [left_button_down |-> c.left_button_down,
          right_button_down |-> c.right_button_down,
          last_click_time |-> c.last_click_time, sink |-> <<>>]

\* Python's int() on a value given in tenths: truncation towards zero
int_tenths(v) == Sign(v) * (Abs(v) \div 10)

\* lines 180-192: int(direction * 3), scrolled inverted when it is not 0
handle_scroll(g) ==
    IF "scroll" \in DOMAIN g /\ "scroll_direction" \in DOMAIN g
    THEN LET scroll_amount == int_tenths(g["scroll_direction"] * 3)
         IN  IF Abs(scroll_amount) * 2 > 1 THEN <<Scroll(-scroll_amount)>> ELSE <<>>
    ELSE <<>>

\* MouseController.update_mouse on controller c at time t: the controller
\* afterwards and the sink calls made, in order
update_mouse(c, pointer_pos, g, palm, t) ==
    IF c.last_raw_position = None
    THEN [controller |-> initialize_tracking(c, pointer_pos), sink |-> <<>>]
    ELSE
    LET go == should_move(g, c.left_button_down, c.right_button_down)
        eff == effective_sensitivity(c.sensitivity, palm)
        appended == Append(c.position_history, pointer_pos)
        history == IF Len(appended) > 5 THEN Tail(appended) ELSE appended
        delta_x == apply_dead_zone(axis_delta(pointer_pos[1], c.last_raw_position[1], eff))
        delta_y == apply_dead_zone(axis_delta(pointer_pos[2], c.last_raw_position[2], eff))
        moves == go /\ (Abs(delta_x) > 0 \/ Abs(delta_y) > 0)
        inv_x == invert(delta_x)
        inv_y == invert(delta_y)
        has_last == c.last_delta # None
        last_x == IF has_last THEN c.last_delta[1] ELSE 0
        last_y == IF has_last THEN c.last_delta[2] ELSE 0
        move_calls == IF moves
                      THEN <<MoveRel(movement(smooth_delta(inv_x, has_last, last_x)),
                                     movement(smooth_delta(inv_y, has_last, last_y)))>>
                      ELSE <<>>
        buttons == handle_buttons(c, g, t)
    IN  [controller |->
            [last_raw_position |-> pointer_pos,
             last_delta |-> IF moves THEN <<inv_x, inv_y>> ELSE c.last_delta,
             position_history |-> history,
             is_moving |-> IF moves THEN TRUE
                           ELSE IF c.is_moving /\ ~go THEN FALSE ELSE c.is_moving,
             left_button_down |-> buttons.left_button_down,
             right_button_down |-> buttons.right_button_down,
             last_click_time |-> buttons.last_click_time,
             sensitivity |-> c.sensitivity],
         sink |-> move_calls \o buttons.sink \o handle_scroll(g)]

\* The sink call number k of update_mouse raises (pyautogui.FailSafeException,
\* an OS error): the statements before it have run, those after it have not.
\* c is the controller before the call, res what update_mouse does when no
\* sink call fails.
\*   moveRel, line 143: history and last_delta are stored, is_moving and
\*     last_raw_position are not;
\*   mouseDown / mouseUp, lines 159-176: the button's flag and last_click_time
\*     are assigned after the call, so they keep their values;
\*   scroll, line 191: the last statement.
sink_failure(c, res, k) ==
    LET call == res.sink[k]
        left_pressed == \E j \in 1..Len(res.sink) : res.sink[j] = MouseDown("left")
    IN  CASE call.kind = "move" ->
                [c EXCEPT !.position_history = res.controller.position_history,
                          !.last_delta = res.controller.last_delta]
          [] call.kind \in {"down", "up"} /\ call.button = "left" ->
                [res.controller EXCEPT !.left_button_down = c.left_button_down,
                                       !.right_button_down = c.right_button_down,
                                       !.last_click_time = c.last_click_time]
          [] call.kind \in {"down", "up"} /\ call.button = "right" ->
                [res.controller EXCEPT
                    !.right_button_down = c.right_button_down,
                    !.last_click_time = IF left_pressed
                                        THEN res.controller.last_click_time
                                        ELSE c.last_click_time]
          [] call.kind = "scroll" -> res.controller

\* update_mouse against a sink that raises on call number k of the frame (k = 0,
\* or beyond the calls made: no call raises): the controller afterwards, the
\* calls the sink applied, and the call that raised
apply_sink(c, res, k) ==
    IF k = 0 \/ k > Len(res.sink)
    THEN [controller |-> res.controller, sink |-> res.sink, failed |-> None]
    ELSE [controller |-> sink_failure(c, res, k),
          sink |-> SubSeq(res.sink, 1, k - 1),
          failed |-> res.sink[k]]

----------------------------------------------------------------------------
\* MainWindow (src/app.py): the frame loop and the settings

\* time.time() when the first frame is processed, past the cooldown since 0
StartTime == 10

\* the MouseController as a record
Controller ==
    [last_raw_position |-> last_raw_position, last_delta |-> last_delta,
     position_history |-> position_history, is_moving |-> is_moving,
     left_button_down |-> left_button_down, right_button_down |-> right_button_down,
     last_click_time |-> last_click_time, sensitivity |-> sensitivity]

SetController(c) ==
    /\ last_raw_position' = c.last_raw_position
    /\ last_delta' = c.last_delta
    /\ position_history' = c.position_history
    /\ is_moving' = c.is_moving
    /\ left_button_down' = c.left_button_down
    /\ right_button_down' = c.right_button_down
    /\ last_click_time' = c.last_click_time
    /\ sensitivity' = c.sensitivity

\* the sink calls of kind K among q
CallsOf(q, K) == {k \in 1..Len(q) : q[k].kind \in K}

\* the kind of the last call for button b among q, or before when q has none
LastAction(before, q, b) ==
    LET ks == {k \in CallsOf(q, {"down", "up"}) : q[k].button = b}
    IN  IF ks = {} THEN before
        ELSE q[CHOOSE k \in ks : \A j \in ks : j <= k].kind

\* the log after a frame with a hand at time t in which update_mouse was called
\* (or not) and made the sink calls q
LogHand(l, was_called, q, t) ==
    [hand_seen |-> TRUE,
     gap |-> l.gap /\ ~was_called,
     last_change |-> IF CallsOf(q, {"down", "up"}) # {} THEN t ELSE l.last_change,
     last_down |-> IF CallsOf(q, {"down"}) # {} THEN t ELSE l.last_down,
     last_action |-> [b \in {"left", "right"} |-> LastAction(l.last_action[b], q, b)]]

\* the log after a frame without a hand
LogNoHand(l) == [l EXCEPT !.gap = l.hand_seen]

\* lines 238-242: the pointer is active on move, or drag with a click gesture
pointer_activation(g) ==
    \/ "move" \in DOMAIN g
    \/ /\ "drag" \in DOMAIN g
       /\ ("left_click" \in DOMAIN g \/ "right_click" \in DOMAIN g)

\* process_frames, lines 250-252: what the loop does to the controller when no
\* hand is detected
no_hand_controller(c) == c

\* an exception handler that lets the exception leave process_frames
exception_ends_loop(state) == "terminated"

\* lines 265-266: an exception of the iteration is printed; the while loop goes on
exception_caught(state) == state

\* one iteration of process_frames on a frame with a hand: lines 221-249.  p is
\* the index fingertip, palm the palm size, out the outcome of detect_gestures,
\* dt the time since the previous frame, fail the number of the sink call that
\* raises (0: none).  A TimeoutError out of detect_gestures or an exception out
\* of update_mouse is caught at line 265 and ends the iteration there.
FrameHand(limit, P, PS, O, DT, F) ==
    /\ frames < limit
    /\ processing = "running"
    /\ \E p \in P, palm \in PS, out \in O, dt \in DT, fail \in F :
        \E ptr \in {update_position(position, prev_positions, p)} :
        \E pointer_pos \in {get_smoothed_position(ptr.position, ptr.prev_positions)} :
        \E res \in {apply_sink(Controller,
                                update_mouse(Controller, pointer_pos, out.map, palm, now + dt),
                                fail)} :
            /\ now' = now + dt
            /\ frames' = frames + 1
            /\ position' = ptr.position
            /\ prev_positions' = ptr.prev_positions
            /\ frame' = [hand |-> TRUE, called |-> ~out.raised,
                         gestures |-> out.map, pointer_pos |-> pointer_pos,
                         palm_size |-> palm, before |-> Controller, log |-> log,
                         failed |-> IF out.raised THEN None ELSE res.failed,
                         prev_failed |-> frame.failed,
                 prev_emitted |-> emitted, dead_zone |-> dead_zone]
            /\ IF out.raised
               THEN /\ emitted' = <<>>
                    /\ log' = LogHand(log, FALSE, <<>>, now + dt)
                    /\ processing' = exception_caught(processing)
                    /\ UNCHANGED <<mouse_vars, pointer_active, current_gestures>>
               ELSE IF res.failed # None
               THEN /\ SetController(res.controller)
                    /\ emitted' = res.sink
                    /\ log' = LogHand(log, TRUE, res.sink, now + dt)
                    /\ processing' = exception_caught(processing)
                    /\ UNCHANGED <<pointer_active, current_gestures>>
               ELSE /\ SetController(res.controller)
                    /\ emitted' = res.sink
                    /\ log' = LogHand(log, TRUE, res.sink, now + dt)
                    /\ processing' = processing
                    /\ pointer_active' = pointer_activation(out.map)
                    /\ current_gestures' = out.map
    /\ UNCHANGED <<detect_vars, thread_vars, snapshot_vars, settings_vars, publish_vars>>

\* one iteration of process_frames on a frame without a hand: lines 250-252
FrameNoHand(limit, DT) ==
    /\ frames < limit
    /\ processing = "running"
    /\ processing' = processing
    /\ \E dt \in DT : now' = now + dt
    /\ frames' = frames + 1
    /\ current_gestures' = EmptyMap
    /\ pointer_active' = FALSE
    /\ SetController(no_hand_controller(Controller))
    /\ emitted' = <<>>
    /\ frame' = [hand |-> FALSE, called |-> FALSE, gestures |-> EmptyMap,
                 pointer_pos |-> None, palm_size |-> 0, before |-> Controller,
                 log |-> log, failed |-> None, prev_failed |-> frame.failed,
                 prev_emitted |-> emitted, dead_zone |-> dead_zone]
    /\ log' = LogNoHand(log)
    /\ UNCHANGED <<position, prev_positions, detect_vars, thread_vars, snapshot_vars, settings_vars, publish_vars>>

\* the frames of Spec: every outcome of detect_gestures, slow frames
ProcessFrameHand == FrameHand(MaxFrames, Positions, PalmSizes, DetectOutcomes, {6}, {0})
ProcessFrameNoHand == FrameNoHand(MaxFrames, {6})

\* the frames of SpecButtons: the outcomes of detect_gestures without drag and
\* scroll, a hand held still at the calibration distance (the smoothed pointer
\* still moves while its history fills), fast and slow frames
ClickOutcomes == {o \in DetectOutcomes : DOMAIN o.map \subseteq {"left_click", "right_click", "move"}}
ClickFrameHand == FrameHand(MaxClickFrames, {<<3, 20>>}, {110}, ClickOutcomes, FrameIntervals, {0})
ClickFrameNoHand == FrameNoHand(MaxClickFrames, FrameIntervals)

\* The frames of SpecRelease.  In the first MaxReleaseFrames frames a still hand
\* makes click gestures or none, or no hand is seen; then the loop goes on for
\* ever with frames in which no click gesture is detected: a hand making no
\* gesture or the move gesture, or no hand.  time.time() is read up to
\* ClockCeiling, late enough for the cooldown since any earlier press to be over
\* (nothing in update_mouse tells later times apart), and the frames are counted
\* modulo 2 from there on.
PressOutcomes ==
    {o \in ClickOutcomes : ~o.raised /\ DOMAIN o.map \subseteq {"left_click", "right_click"}}
ReleaseFrameHand == FrameHand(MaxReleaseFrames, {<<3, 20>>}, {110}, PressOutcomes, {6}, {0})
ReleaseFrameNoHand == FrameNoHand(MaxReleaseFrames, {6})
ClockCeiling == StartTime + MaxReleaseFrames * 6 + click_cooldown + 1
QuietOutcomes == {o \in ClickOutcomes : ~o.raised /\ DOMAIN o.map \subseteq {"move"}}
NextQuietFrame == MaxReleaseFrames + ((frames - MaxReleaseFrames + 1) % 2)

QuietFrameHand ==
    /\ frames >= MaxReleaseFrames
    /\ frames' = NextQuietFrame
    /\ processing = "running"
    /\ \E out \in QuietOutcomes :
        \E t \in {Min(now + 6, ClockCeiling)} :
        \E ptr \in {update_position(position, prev_positions, <<3, 20>>)} :
        \E pointer_pos \in {get_smoothed_position(ptr.position, ptr.prev_positions)} :
        \E res \in {update_mouse(Controller, pointer_pos, out.map, 110, t)} :
            /\ now' = t
            /\ position' = ptr.position
            /\ prev_positions' = ptr.prev_positions
            /\ frame' = [hand |-> TRUE, called |-> TRUE,
                         gestures |-> out.map, pointer_pos |-> pointer_pos,
                         palm_size |-> 110, before |-> Controller, log |-> log,
                         failed |-> None, prev_failed |-> frame.failed,
                         prev_emitted |-> emitted, dead_zone |-> dead_zone]
            /\ SetController(res.controller)
            /\ emitted' = res.sink
            /\ log' = LogHand(log, TRUE, res.sink, t)
            /\ pointer_active' = pointer_activation(out.map)
            /\ current_gestures' = out.map
    /\ UNCHANGED <<processing, detect_vars, thread_vars, snapshot_vars, settings_vars, publish_vars>>

QuietFrameNoHand ==
    /\ frames >= MaxReleaseFrames
    /\ frames' = NextQuietFrame
    /\ processing = "running"
    /\ now' = Min(now + 6, ClockCeiling)
    /\ current_gestures' = EmptyMap
    /\ pointer_active' = FALSE
    /\ SetController(no_hand_controller(Controller))
    /\ emitted' = <<>>
    /\ frame' = [hand |-> FALSE, called |-> FALSE, gestures |-> EmptyMap,
                 pointer_pos |-> None, palm_size |-> 0, before |-> Controller,
                 log |-> log, failed |-> None, prev_failed |-> frame.failed,
                 prev_emitted |-> emitted, dead_zone |-> dead_zone]
    /\ log' = LogNoHand(log)
    /\ UNCHANGED <<position, prev_positions, processing, detect_vars,
                   thread_vars, snapshot_vars, settings_vars, publish_vars>>

\* the frames of SpecSink: a sink that can raise on the first, second or third
\* call of a frame; the outcomes of detect_gestures without right_click and drag
SinkOutcomes ==
    {o \in DetectOutcomes :
        DOMAIN o.map \subseteq {"left_click", "move", "scroll", "scroll_direction"}}
SinkFrameHand == FrameHand(MaxSinkFrames, Positions, {110}, SinkOutcomes, {6}, 0..3)
SinkFrameNoHand == FrameNoHand(MaxSinkFrames, {6})

\* the frames of SpecSettings: a hand at the calibration distance making the
\* move gesture
MoveOutcomes == {o \in DetectOutcomes : ~o.raised /\ DOMAIN o.map = {"move"}}
SettingsFrameHand == FrameHand(MaxSettingsFrames, Positions, {110}, MoveOutcomes, {6}, {0})

----------------------------------------------------------------------------
\* GestureDetector (src/src/tracking/gestures.py): the five classifiers on a
\* snapshot.  A snapshot fp is a dict from point names to pixel positions
\* <<x, y>>, palm the palm size in pixels, cfg the detector's config with the
\* thresholds in hundredths and the scroll speeds in tenths.  Distances are
\* fixed-point hundredths of a pixel, angles thousandths of a radian,
\* straightness and curl factors thousandths; a classifier yields what its
\* future will hold: a returned dict or an exception.

Returned(r) == [state |-> "returned", result |-> r]
Raised == [state |-> "raised", result |-> EmptyMap]

RECURSIVE isqrt_between(_, _, _)
\* the largest r in lo..hi with r * r <= n
isqrt_between(n, lo, hi) ==
    IF lo = hi THEN lo
    ELSE LET mid == (lo + hi + 1) \div 2
         IN  IF mid * mid <= n THEN isqrt_between(n, mid, hi)
             ELSE isqrt_between(n, lo, mid - 1)

\* np.sqrt((a[0] - b[0])**2 + (a[1] - b[1])**2), in hundredths of a pixel
distance(a, b) ==
    isqrt_between(10000 * ((a[1] - b[1]) * (a[1] - b[1]) + (a[2] - b[2]) * (a[2] - b[2])),
                  0, 46340)

\* np.pi / 4 and np.pi / 2
quarter_pi == 785
half_pi == 1571

\* np.arctan2(abs(dy), abs(dx)) if abs(dx) > 0.001 else np.pi/2, for the
\* segment directions the snapshots below are made of
segment_slope(dx, dy) ==
    LET ax == Abs(dx)
        ay == Abs(dy)
    IN  CASE ax = 0      -> half_pi
          [] ay = 0      -> 0
          [] 2 * ay = ax -> 464
          [] ay = ax     -> quarter_pi
          [] ay = 2 * ax -> 1107

\* 1.0 - (distance / true_threshold) in percent, for distance < true_threshold
\* = threshold * palm_size
confidence(d, threshold, palm) == 100 - (100 * d) \div (threshold * palm)

\* the threshold itself counted as touching, for a palm of positive size
within_or_at_threshold(d, threshold, palm) ==
    threshold * palm > 0 /\ d <= threshold * palm

\* distance < true_threshold
within_threshold(d, threshold, palm) == d < threshold * palm

\* a test for the fingertips only, the joints read unchecked
required_points_tips_only(c) ==
    CASE c = "left_click"     -> {"thumb", "index"}
      [] c = "right_click"    -> {"thumb", "middle"}
      [] c = "move_gesture"   -> {"index", "middle"}
      [] c = "drag_gesture"   -> {"ring", "pinky"}
      [] c = "scroll_gesture" -> {"middle", "ring"}

\* the points a classifier tests for before it reads any: config['fingers'] of
\* left_click, right_click, move and drag, the local list of scroll_gesture
required_points(c) ==
    CASE c = "left_click"     -> {"thumb", "index"}
      [] c = "right_click"    -> {"thumb", "middle"}
      [] c = "move_gesture"   -> {"index", "middle", "dip_middle", "pip_middle",
                                  "dip_index", "pip_index"}
      [] c = "drag_gesture"   -> {"ring", "pinky", "palm_center", "mcp_ring", "mcp_pinky"}
      [] c = "scroll_gesture" -> {"middle", "ring", "dip_middle", "pip_middle",
                                  "dip_ring", "pip_ring", "wrist", "palm_center"}

\* the points the body of a classifier reads with finger_positions[...]
points_read(c) ==
    CASE c = "left_click"     -> {"thumb", "index"}
      [] c = "right_click"    -> {"thumb", "middle"}
      [] c = "move_gesture"   -> {"index", "dip_index", "pip_index", "middle",
                                  "dip_middle", "pip_middle"}
      [] c = "drag_gesture"   -> {"ring", "pinky", "palm_center", "mcp_ring", "mcp_pinky"}
      [] c = "scroll_gesture" -> {"middle", "dip_middle", "pip_middle", "ring",
                                  "dip_ring", "pip_ring", "wrist", "palm_center"}

\* lines 64-79 and 97-112: a click classifier on thumb and finger
click(name, finger, fp, palm, threshold) ==
    LET d == distance(fp["thumb"], fp[finger])
    IN  IF within_threshold(d, threshold, palm)
        THEN Returned(name :> confidence(d, threshold, palm))
        ELSE Returned(EmptyMap)

\* lines 132-180
move_body(fp, palm, threshold) ==
    LET top_index_slope == segment_slope(fp["index"][1] - fp["dip_index"][1],
                                         fp["index"][2] - fp["dip_index"][2])
        bot_index_slope == segment_slope(fp["pip_index"][1] - fp["dip_index"][1],
                                         fp["pip_index"][2] - fp["dip_index"][2])
        top_middle_slope == segment_slope(fp["middle"][1] - fp["dip_middle"][1],
                                          fp["middle"][2] - fp["dip_middle"][2])
        bot_middle_slope == segment_slope(fp["pip_middle"][1] - fp["dip_middle"][1],
                                          fp["pip_middle"][2] - fp["dip_middle"][2])
        middle_pos == <<(fp["middle"][1] + fp["dip_middle"][1]) \div 2,
                        (fp["middle"][2] + fp["dip_middle"][2]) \div 2>>
        d == distance(fp["index"], middle_pos)
    IN  IF \/ Abs(top_index_slope - top_middle_slope) > 250
           \/ Abs(bot_index_slope - bot_middle_slope) > 250
        THEN Returned(EmptyMap)
        ELSE IF within_threshold(d, threshold, palm)
             THEN Returned("move" :> confidence(d, threshold, palm))
             ELSE Returned(EmptyMap)

\* lines 203-254; the division of lines 225-226 raises ZeroDivisionError when a
\* knuckle lies on the palm centre
drag_body(fp, threshold) ==
    LET ring_distance == distance(fp["ring"], fp["palm_center"])
        pinky_distance == distance(fp["pinky"], fp["palm_center"])
        ring_extended_distance == distance(fp["mcp_ring"], fp["palm_center"]) * 2
        pinky_extended_distance == distance(fp["mcp_pinky"], fp["palm_center"]) * 2
        ring_curl_factor == (1000 * ring_distance) \div ring_extended_distance
        pinky_curl_factor == (1000 * pinky_distance) \div pinky_extended_distance
        curl_threshold == threshold * 20
        ring_clenched == ring_curl_factor < curl_threshold
        pinky_clenched == pinky_curl_factor < curl_threshold
        both_pointing_down == /\ fp["ring"][2] - fp["mcp_ring"][2] > 0
                              /\ fp["pinky"][2] - fp["mcp_pinky"][2] > 0
        conf == IF ring_clenched /\ pinky_clenched
                THEN 100 - ((ring_curl_factor + pinky_curl_factor) * 100)
                               \div (2 * curl_threshold)
                ELSE 70
    IN  IF ring_extended_distance = 0 \/ pinky_extended_distance = 0
        THEN Raised
        ELSE IF (ring_clenched /\ pinky_clenched) \/ both_pointing_down
             THEN Returned("drag" :> Min(100, Max(0, conf)))
             ELSE Returned(EmptyMap)

\* lines 341-342: 1.0 - min(abs(top - bottom), pi/4) / (pi/4), in thousandths
straightness(top_slope, bot_slope) ==
    1000 - (Min(Abs(top_slope - bot_slope), quarter_pi) * 1000) \div quarter_pi

\* the speed falling from max_speed to base_speed as the fingers straighten
speed_multiplier_inverted(base_speed, max_speed, straightness_factor, avg) ==
    max_speed - (Pow(avg, straightness_factor) * (max_speed - base_speed))
                    \div Pow(1000, straightness_factor)

\* line 368: base_speed + (avg_straightness ** straightness_factor) *
\* (max_speed - base_speed), speeds in tenths, avg in thousandths
speed_multiplier(base_speed, max_speed, straightness_factor, avg) ==
    base_speed + (Pow(avg, straightness_factor) * (max_speed - base_speed))
                     \div Pow(1000, straightness_factor)

\* the scroll result with the direction stored whether or not the fingers touch
scroll_result_direction_always(touching, conf, direction) ==
    IF touching THEN Returned(("scroll" :> conf) @@ ("scroll_direction" :> direction))
    ELSE Returned("scroll_direction" :> direction)

\* lines 361-379: confidence and direction are stored together, when the
\* fingertips are within the threshold
scroll_result(touching, conf, direction) ==
    IF touching THEN Returned(("scroll" :> conf) @@ ("scroll_direction" :> direction))
    ELSE Returned(EmptyMap)

\* lines 314-345: the average straightness of the middle and the ring finger
avg_straightness(fp) ==
    LET top_middle_slope == segment_slope(fp["middle"][1] - fp["dip_middle"][1],
                                          fp["middle"][2] - fp["dip_middle"][2])
        bot_middle_slope == segment_slope(fp["pip_middle"][1] - fp["dip_middle"][1],
                                          fp["pip_middle"][2] - fp["dip_middle"][2])
        top_ring_slope == segment_slope(fp["ring"][1] - fp["dip_ring"][1],
                                        fp["ring"][2] - fp["dip_ring"][2])
        bot_ring_slope == segment_slope(fp["pip_ring"][1] - fp["dip_ring"][1],
                                        fp["pip_ring"][2] - fp["dip_ring"][2])
    IN  (straightness(top_middle_slope, bot_middle_slope)
         + straightness(top_ring_slope, bot_ring_slope)) \div 2

\* the speed taken as the direction whichever way the fingers point
direction_unsigned(middle_pointing_up, speed) == speed

\* lines 370-376: fingers pointing up scroll up (negative), else down
direction(middle_pointing_up, speed) == IF middle_pointing_up THEN -speed ELSE speed

\* lines 283-383
scroll_body(fp, palm, cfg) ==
    LET middle_pointing_up == fp["middle"][2] - fp["pip_middle"][2] < 0
        ring_pointing_up == fp["ring"][2] - fp["pip_ring"][2] < 0
        top_middle_slope == segment_slope(fp["middle"][1] - fp["dip_middle"][1],
                                          fp["middle"][2] - fp["dip_middle"][2])
        bot_middle_slope == segment_slope(fp["pip_middle"][1] - fp["dip_middle"][1],
                                          fp["pip_middle"][2] - fp["dip_middle"][2])
        top_ring_slope == segment_slope(fp["ring"][1] - fp["dip_ring"][1],
                                        fp["ring"][2] - fp["dip_ring"][2])
        bot_ring_slope == segment_slope(fp["pip_ring"][1] - fp["dip_ring"][1],
                                        fp["pip_ring"][2] - fp["dip_ring"][2])
        d == distance(fp["middle"], fp["ring"])
        speed == speed_multiplier(cfg.base_speed, cfg.max_speed,
                                  cfg.straightness_factor, avg_straightness(fp))
    IN  IF middle_pointing_up # ring_pointing_up
        THEN Returned(EmptyMap)
        ELSE IF \/ Abs(top_middle_slope - top_ring_slope) > 250
                \/ Abs(bot_middle_slope - bot_ring_slope) > 250
        THEN Returned(EmptyMap)
        ELSE scroll_result(within_threshold(d, cfg.scroll, palm),
                           confidence(d, cfg.scroll, palm),
                           direction(middle_pointing_up, speed))

\* a classifier on a snapshot: the test for the required points, then the body,
\* where finger_positions[p] raises KeyError for a point that is not there
classify(c, fp, palm, cfg) ==
    IF ~(required_points(c) \subseteq DOMAIN fp) THEN Returned(EmptyMap)
    ELSE IF ~(points_read(c) \subseteq DOMAIN fp) THEN Raised
    ELSE CASE c = "left_click"     -> click("left_click", "index", fp, palm, cfg.left_click)
           [] c = "right_click"    -> click("right_click", "middle", fp, palm, cfg.right_click)
           [] c = "move_gesture"   -> move_body(fp, palm, cfg.move)
           [] c = "drag_gesture"   -> drag_body(fp, cfg.drag)
           [] c = "scroll_gesture" -> scroll_body(fp, palm, cfg)

\* The snapshots given to the classifiers: a hand on a pixel grid.  The
\* fingers index, middle and ring have their DIP joints on a row; a finger shape
\* gives the tip and the PIP joint relative to the DIP joint.
Plus(a, b) == <<a[1] + b[1], a[2] + b[2]>>

ShapeUp == [top |-> <<0, -8>>, bot |-> <<0, 8>>]
ShapeDown == [top |-> <<0, 8>>, bot |-> <<0, -8>>]
ShapeLean == [top |-> <<4, -8>>, bot |-> <<0, 8>>]
ShapeBent == [top |-> <<8, -8>>, bot |-> <<0, 8>>]
ShapeHook == [top |-> <<8, 0>>, bot |-> <<0, 8>>]
ShapeFold == [top |-> <<-8, 16>>, bot |-> <<0, 8>>]
\* nearly level fingers, the tip just above or just below the PIP joint
ShapeFlatUp == [top |-> <<2, -1>>, bot |-> <<-2, 1>>]
ShapeFlatDown == [top |-> <<-2, 1>>, bot |-> <<2, -1>>]

\* the shapes of index, middle and ring finger
HandShapes ==
    {<<ShapeUp, ShapeUp, ShapeUp>>, <<ShapeLean, ShapeLean, ShapeLean>>,
     <<ShapeBent, ShapeBent, ShapeBent>>, <<ShapeDown, ShapeDown, ShapeDown>>,
     <<ShapeUp, ShapeUp, ShapeFold>>, <<ShapeUp, ShapeLean, ShapeUp>>,
     <<ShapeHook, ShapeUp, ShapeUp>>, <<ShapeFold, ShapeFold, ShapeFold>>,
     <<ShapeUp, ShapeFlatUp, ShapeFlatDown>>}

\* pinky tip and palm centre: an open hand, a fist, and a hand so small that the
\* ring knuckle and the palm centre fall on the same pixel, its pinky folded
PalmPoses ==
    {[pinky |-> <<32, 32>>, palm_center |-> <<24, 44>>],
     [pinky |-> <<26, 46>>, palm_center |-> <<22, 46>>],
     [pinky |-> <<32, 46>>, palm_center |-> <<28, 44>>]}

\* the thumb tip lies 0 .. MaxThumbOffset pixels to the right of the index tip
MaxThumbOffset == 6

Hand(thumb_offset, shapes, palm_pose) ==
    LET dip_index == <<20, 30>>
        dip_middle == <<24, 30>>
        dip_ring == <<28, 30>>
        index == Plus(dip_index, shapes[1].top)
    IN  ("thumb" :> Plus(index, <<thumb_offset, 0>>)) @@ ("index" :> index) @@
        ("dip_index" :> dip_index) @@ ("pip_index" :> Plus(dip_index, shapes[1].bot)) @@
        ("middle" :> Plus(dip_middle, shapes[2].top)) @@ ("dip_middle" :> dip_middle) @@
        ("pip_middle" :> Plus(dip_middle, shapes[2].bot)) @@
        ("ring" :> Plus(dip_ring, shapes[3].top)) @@ ("dip_ring" :> dip_ring) @@
        ("pip_ring" :> Plus(dip_ring, shapes[3].bot)) @@
        ("pinky" :> palm_pose.pinky) @@ ("mcp_ring" :> <<28, 44>>) @@
        ("mcp_pinky" :> <<32, 44>>) @@ ("palm_center" :> palm_pose.palm_center) @@
        ("wrist" :> <<24, 56>>)

PointNames ==
    {"thumb", "index", "dip_index", "pip_index", "middle", "dip_middle", "pip_middle",
     "ring", "dip_ring", "pip_ring", "pinky", "mcp_ring", "mcp_pinky", "palm_center",
     "wrist"}

\* the points a snapshot lacks: none, any one, or all
MissingPoints == {{}, PointNames} \cup {{p} : p \in PointNames}

\* palm sizes given to the classifiers (pixels)
ClassifyPalmSizes == {0, 20}

\* the detector's config after apply_settings: thresholds (hundredths), scroll
\* speeds (tenths) and straightness factor
Configs ==
    {[left_click |-> 25, right_click |-> 25, move |-> 40, drag |-> 20, scroll |-> 25,
      base_speed |-> 100, max_speed |-> 300, straightness_factor |-> 2],
     [left_click |-> 25, right_click |-> 25, move |-> 40, drag |-> 20, scroll |-> 25,
      base_speed |-> 25, max_speed |-> 25, straightness_factor |-> 1]}

\* detect_gestures on a snapshot when every classifier finishes in time: {} for
\* an empty snapshot (lines 518-519), else the collection of the five futures
detect_snapshot(fp, results) ==
    IF DOMAIN fp = {} THEN [raised |-> FALSE, map |-> EmptyMap]
    ELSE detect_gestures(results)

\* the classifiers and detect_gestures applied to a snapshot, the first of the
\* behaviour (the classifiers keep no state from one snapshot to the next)
Classify ==
    /\ classified = None
    /\ \E thumb_offset \in 0..MaxThumbOffset, shapes \in HandShapes,
          palm_pose \in PalmPoses, missing \in MissingPoints,
          palm \in ClassifyPalmSizes, cfg \in Configs :
         LET hand == Hand(thumb_offset, shapes, palm_pose)
             fp == [p \in DOMAIN hand \ missing |-> hand[p]]
             results == [c \in Classifiers |-> classify(c, fp, palm, cfg)]
         IN  classified' = [snapshot |-> fp, palm_size |-> palm, config |-> cfg,
                            results |-> results,
                            outcome |-> detect_snapshot(fp, results)]
    /\ UNCHANGED <<pointer_vars, mouse_vars, loop_vars, detect_vars, thread_vars,
                   settings_vars, publish_vars>>

----------------------------------------------------------------------------
\* MainWindow (src/app.py): the GUI thread (toggle_camera, update_frame) and the
\* processing threads, step by step.  What an iteration of process_frames does
\* to the tracker and the controller is FrameHand / FrameNoHand above; here an
\* iteration is the time a thread spends "busy".
\* A thread is "unborn", at the while test ("loop"), inside frame_queue.get
\* ("waiting"), inside the body of an iteration ("busy"), publishing the
\* processed frame ("publish_remove", "publish_put", "blocked_put": inside a put
\* that waits for room), or "exited".

publish_rest == <<pointer_vars, mouse_vars, loop_vars, detect_vars, snapshot_vars,
                  settings_vars>>
thread_rest == <<publish_rest, publish_vars>>

\* Thread.is_alive
is_alive(t) == threads[t] \notin {"unborn", "exited"}

\* toggle_camera, lines 185-204: the camera opens, is_processing is set, a new
\* thread is created and started, the timer starts
StartCamera ==
    /\ gui_pc = "idle"
    /\ ~timer_active
    /\ \E t \in 1..MaxThreads :
         /\ threads[t] = "unborn"
         /\ \A u \in 1..(t - 1) : threads[u] # "unborn"
         /\ threads' = [threads EXCEPT ![t] = "loop"]
         /\ processing_thread' = t
    /\ is_processing' = TRUE
    /\ timer_active' = TRUE
    /\ UNCHANGED <<frame_queue, gui_pc, gui_frame, captured, offered, taken, thread_rest>>

\* toggle_camera, lines 174-181: the timer stops, is_processing is cleared and
\* the GUI thread joins the processing thread when it is alive
StopCamera ==
    /\ gui_pc = "idle"
    /\ timer_active
    /\ timer_active' = FALSE
    /\ is_processing' = FALSE
    /\ gui_pc' = IF processing_thread # 0 /\ is_alive(processing_thread)
                 THEN "joining" ELSE "idle"
    /\ UNCHANGED <<frame_queue, processing_thread, threads, gui_frame, captured,
                   offered, taken, thread_rest>>

\* line 181: the thread has ended and join returns
JoinReturns ==
    /\ gui_pc = "joining"
    /\ ~is_alive(processing_thread)
    /\ gui_pc' = "idle"
    /\ UNCHANGED <<timer_active, is_processing, frame_queue, processing_thread,
                   threads, gui_frame, captured, offered, taken, thread_rest>>

\* line 181: join(timeout=1.0) gives up on a thread whose iteration lasts longer
\* than a second (a thread inside frame_queue.get leaves it within 0.1 s), or
\* whose put waits for room
JoinTimesOut ==
    /\ gui_pc = "joining"
    /\ threads[processing_thread] \in {"busy", "blocked_put"}
    /\ gui_pc' = "idle"
    /\ UNCHANGED <<timer_active, is_processing, frame_queue, processing_thread,
                   threads, gui_frame, captured, offered, taken, thread_rest>>

\* process_frames, line 212: while self.is_processing
LoopTest(t) ==
    /\ threads[t] = "loop"
    /\ threads' = [threads EXCEPT ![t] = IF is_processing THEN "waiting" ELSE "exited"]
    /\ UNCHANGED <<timer_active, is_processing, frame_queue, processing_thread,
                   gui_pc, gui_frame, captured, offered, taken, thread_rest>>

\* line 215: frame_queue.get(timeout=0.1) returns the queued frame
GetFrame(t) ==
    /\ threads[t] = "waiting"
    /\ frame_queue # <<>>
    /\ taken' = taken \cup {Head(frame_queue)}
    /\ frame_queue' = Tail(frame_queue)
    /\ threads' = [threads EXCEPT ![t] = "busy"]
    /\ UNCHANGED <<timer_active, is_processing, processing_thread, gui_pc,
                   gui_frame, captured, offered, thread_rest>>

\* lines 215, 262-264: the get times out on an empty queue and Empty is passed over
GetTimesOut(t) ==
    /\ threads[t] = "waiting"
    /\ frame_queue = <<>>
    /\ threads' = [threads EXCEPT ![t] = "loop"]
    /\ UNCHANGED <<timer_active, is_processing, frame_queue, processing_thread,
                   gui_pc, gui_frame, captured, offered, taken, thread_rest>>

\* lines 218-252, 265-266: the body of the iteration ends by a caught
\* exception, before the processed frame is published
FinishIteration(t) ==
    /\ threads[t] = "busy"
    /\ threads' = [threads EXCEPT ![t] = "loop"]
    /\ UNCHANGED <<timer_active, is_processing, frame_queue, processing_thread,
                   gui_pc, gui_frame, captured, offered, taken, thread_rest>>

\* Queue(maxsize=1).full()
full(q) == Len(q) >= 1

\* line 255: the iteration reaches the publication and reads
\* processed_frame_queue.empty()
PublishTest(t) ==
    /\ threads[t] = "busy"
    /\ threads' = [threads EXCEPT ![t] = IF processed_frame_queue # <<>>
                                         THEN "publish_remove" ELSE "publish_put"]
    /\ UNCHANGED <<timer_active, is_processing, frame_queue, processing_thread,
                   gui_pc, gui_frame, captured, offered, taken, thread_rest>>

\* lines 256-259: get_nowait removes the frame that was there, or raises Empty,
\* which is passed over
PublishRemove(t) ==
    /\ threads[t] = "publish_remove"
    /\ processed_frame_queue' = IF processed_frame_queue # <<>>
                                THEN Tail(processed_frame_queue) ELSE <<>>
    /\ threads' = [threads EXCEPT ![t] = "publish_put"]
    /\ UNCHANGED <<timer_active, is_processing, frame_queue, processing_thread,
                   gui_pc, gui_frame, captured, offered, taken, publish_rest>>

\* line 260: processed_frame_queue.put(processed_frame) puts at once when there
\* is room, and waits inside put when the queue is full
PublishPut(t) ==
    /\ threads[t] = "publish_put"
    /\ IF full(processed_frame_queue)
       THEN /\ threads' = [threads EXCEPT ![t] = "blocked_put"]
            /\ UNCHANGED processed_frame_queue
       ELSE /\ threads' = [threads EXCEPT ![t] = "loop"]
            /\ processed_frame_queue' = Append(processed_frame_queue, t)
    /\ UNCHANGED <<timer_active, is_processing, frame_queue, processing_thread,
                   gui_pc, gui_frame, captured, offered, taken, publish_rest>>

\* the waiting put goes through once the queue has room
PutUnblocks(t) ==
    /\ threads[t] = "blocked_put"
    /\ ~full(processed_frame_queue)
    /\ threads' = [threads EXCEPT ![t] = "loop"]
    /\ processed_frame_queue' = Append(processed_frame_queue, t)
    /\ UNCHANGED <<timer_active, is_processing, frame_queue, processing_thread,
                   gui_pc, gui_frame, captured, offered, taken, publish_rest>>

\* update_frame on a timer tick, lines 271-279 and 281: a frame is captured and
\* frame_queue.full() is read
UpdateFrameBegin ==
    /\ gui_pc = "idle"
    /\ timer_active
    /\ captured < MaxCaptured
    /\ captured' = captured + 1
    /\ gui_frame' = captured + 1
    /\ gui_pc' = IF ~full(frame_queue) THEN "put" ELSE "replace"
    /\ UNCHANGED <<timer_active, is_processing, frame_queue, processing_thread,
                   threads, offered, taken, thread_rest>>

\* lines 280 and 286: frame_queue.put(frame), which blocks while the queue is
\* full; update_frame then returns as far as the queue is concerned
UpdateFramePut ==
    /\ gui_pc = "put"
    /\ ~full(frame_queue)
    /\ frame_queue' = Append(frame_queue, gui_frame)
    /\ offered' = gui_frame
    /\ gui_pc' = "display"
    /\ UNCHANGED <<timer_active, is_processing, processing_thread, threads,
                   gui_frame, captured, taken, thread_rest>>

\* line 284: frame_queue.get_nowait() removes the old frame
UpdateFrameRemove ==
    /\ gui_pc = "replace"
    /\ frame_queue # <<>>
    /\ frame_queue' = Tail(frame_queue)
    /\ gui_pc' = "put"
    /\ UNCHANGED <<timer_active, is_processing, processing_thread, threads,
                   gui_frame, captured, offered, taken, thread_rest>>

\* lines 284, 287-288: get_nowait raises Empty because a consumer took the old
\* frame after full() was read; the handler passes and the new frame is not put
UpdateFrameEmpty ==
    /\ gui_pc = "replace"
    /\ frame_queue = <<>>
    /\ offered' = gui_frame
    /\ gui_pc' = "display"
    /\ UNCHANGED <<timer_active, is_processing, frame_queue, processing_thread,
                   threads, gui_frame, captured, taken, thread_rest>>

\* update_frame, lines 291-296: processed_frame_queue.empty() is read; on an
\* empty queue the raw frame is displayed
DisplayTest ==
    /\ gui_pc = "display"
    /\ gui_pc' = IF processed_frame_queue # <<>> THEN "display_get" ELSE "idle"
    /\ UNCHANGED <<timer_active, is_processing, frame_queue, processing_thread,
                   threads, gui_frame, captured, offered, taken, thread_rest>>

\* lines 293, 297-298: get_nowait takes the processed frame, or raises Empty
\* when a processing thread removed it meanwhile, and the raw frame is displayed
DisplayGet ==
    /\ gui_pc = "display_get"
    /\ processed_frame_queue' = IF processed_frame_queue # <<>>
                                THEN Tail(processed_frame_queue) ELSE <<>>
    /\ gui_pc' = "idle"
    /\ UNCHANGED <<timer_active, is_processing, frame_queue, processing_thread,
                   threads, gui_frame, captured, offered, taken, publish_rest>>

----------------------------------------------------------------------------
\* Settings (src/src/settings/settings.py), the sliders of the settings menu
\* (src/src/settings/menu.py) and their application by MainWindow (src/app.py).
\* Of Settings.current the keys read for the detector and the controller are
\* kept.  Thresholds are hundredths of the palm size (the step of the menu's
\* sliders), scroll speeds and the straightness factor tenths, the dead zone
\* thousandths of a pixel.

\* Settings.defaults, lines 13-40
SettingsDefaults ==
    [left_click_threshold |-> 22, right_click_threshold |-> 22, move_threshold |-> 29,
     drag_threshold |-> 20, scroll_threshold |-> 25,
     scroll_base_speed |-> 100, scroll_max_speed |-> 300,
     scroll_straightness_factor |-> 20,
     mouse_sensitivity |-> 6, dead_zone |-> 800]

\* GestureDetector.__init__, gestures.py lines 11-35
DetectorDefaults ==
    [left_click |-> 22, right_click |-> 22, move |-> 29, drag |-> 20, scroll |-> 25,
     base_speed |-> 200, max_speed |-> 800, straightness_factor |-> 33]

\* MainWindow.__init__, app.py lines 41-46: the five thresholds are copied from
\* the settings into the new detector's config
initial_config(s) ==
    [DetectorDefaults EXCEPT !.left_click = s.left_click_threshold,
                             !.right_click = s.right_click_threshold,
                             !.move = s.move_threshold,
                             !.drag = s.drag_threshold,
                             !.scroll = s.scroll_threshold]

\* apply_settings, app.py lines 148-157: thresholds and scroll settings
applied_config(s) ==
    [left_click |-> s.left_click_threshold, right_click |-> s.right_click_threshold,
     move |-> s.move_threshold, drag |-> s.drag_threshold, scroll |-> s.scroll_threshold,
     base_speed |-> s.scroll_base_speed, max_speed |-> s.scroll_max_speed,
     straightness_factor |-> s.scroll_straightness_factor]

\* the values a slider of the menu can be moved to, for the sliders moved here
SliderValues ==
    [left_click_threshold |-> {22, 30}, scroll_base_speed |-> {10, 25},
     dead_zone |-> {800, 2000}]

\* menu.py lines 255-258: a slider is moved, Settings.set stores its value
SetSetting ==
    /\ \E key \in DOMAIN SliderValues :
         \E val \in SliderValues[key] \ {settings[key]} :
            settings' = [settings EXCEPT ![key] = val]
    /\ settings_pc' = "edited"
    /\ UNCHANGED <<config, dead_zone, pointer_vars, mouse_vars, loop_vars, detect_vars,
                   thread_vars, snapshot_vars, publish_vars>>

\* MainWindow.apply_settings, app.py lines 141-162
ApplySettings ==
    /\ config' = applied_config(settings)
    /\ sensitivity' = settings.mouse_sensitivity
    /\ dead_zone' = settings.dead_zone
    /\ settings_pc' = "applied"
    /\ UNCHANGED <<settings, last_raw_position, last_delta, position_history, is_moving,
                   left_button_down, right_button_down, last_click_time,
                   pointer_vars, loop_vars, detect_vars, thread_vars, snapshot_vars,
                   publish_vars>>

\* before the first frame there is no last frame
LogInit ==
    [hand_seen |-> FALSE, gap |-> FALSE, last_change |-> 0, last_down |-> 0,
     last_action |-> [b \in {"left", "right"} |-> "none"]]

NoFrame ==
    [hand |-> FALSE, called |-> FALSE, gestures |-> EmptyMap, pointer_pos |-> None,
     palm_size |-> 0, before |-> ControllerInit(6), log |-> LogInit,
     failed |-> None, prev_failed |-> None, prev_emitted |-> <<>>, dead_zone |-> 0]

Init ==
    /\ position = PointerInit.position
    /\ prev_positions = PointerInit.prev_positions
    /\ pointer_active = FALSE
    /\ \E s \in Sensitivities :
         /\ sensitivity = s
         /\ frame = [NoFrame EXCEPT !.before = ControllerInit(s)]
    /\ last_raw_position = None
    /\ last_delta = None
    /\ position_history = None
    /\ is_moving = FALSE
    /\ left_button_down = FALSE
    /\ right_button_down = FALSE
    /\ last_click_time = 0
    /\ current_gestures = EmptyMap
    /\ now = StartTime
    /\ emitted = <<>>
    /\ log = LogInit
    /\ frames = 0
    /\ processing = "running"
    /\ fut = [c \in Classifiers |-> PendingFuture]
    /\ yielded = {}
    /\ gestures = EmptyMap
    /\ dg_pc = "idle"
    /\ expired = FALSE
    /\ last_gestures = EmptyMap
    /\ calls = 0
    /\ timer_active = FALSE
    /\ is_processing = FALSE
    /\ frame_queue = <<>>
    /\ processing_thread = 0
    /\ threads = [t \in 1..MaxThreads |-> "unborn"]
    /\ gui_pc = "idle"
    /\ gui_frame = 0
    /\ captured = 0
    /\ offered = 0
    /\ taken = {}
    /\ classified = None
    /\ settings = [SettingsDefaults EXCEPT !.mouse_sensitivity = sensitivity]
    /\ config = initial_config(settings)
    /\ dead_zone = settings.dead_zone
    /\ settings_pc = "constructed"
    /\ processed_frame_queue = <<>>

Next ==
    \/ ProcessFrameHand
    \/ ProcessFrameNoHand

\* the frame pipeline
Spec == Init /\ [][Next]_vars

NextButtons ==
    \/ ClickFrameHand
    \/ ClickFrameNoHand

\* the frame pipeline with the inputs that drive the buttons
InitButtons == Init /\ sensitivity = 6

SpecButtons == InitButtons /\ [][NextButtons]_vars

NextSink ==
    \/ SinkFrameHand
    \/ SinkFrameNoHand

\* the frame pipeline against a sink that can raise
InitSink == Init /\ sensitivity = 6

SpecSink == InitSink /\ [][NextSink]_vars

NextThreads ==
    \/ StartCamera
    \/ StopCamera
    \/ JoinReturns
    \/ JoinTimesOut
    \/ \E t \in 1..MaxThreads : LoopTest(t)
    \/ \E t \in 1..MaxThreads : GetFrame(t)
    \/ \E t \in 1..MaxThreads : GetTimesOut(t)
    \/ \E t \in 1..MaxThreads : FinishIteration(t)
    \/ \E t \in 1..MaxThreads : PublishTest(t)
    \/ \E t \in 1..MaxThreads : PublishRemove(t)
    \/ \E t \in 1..MaxThreads : PublishPut(t)
    \/ \E t \in 1..MaxThreads : PutUnblocks(t)
    \/ UpdateFrameBegin
    \/ UpdateFramePut
    \/ UpdateFrameRemove
    \/ UpdateFrameEmpty
    \/ DisplayTest
    \/ DisplayGet

\* the GUI thread and the processing threads
InitThreads == Init /\ sensitivity = 6

SpecThreads == InitThreads /\ [][NextThreads]_vars

NextClassify == Classify

\* the classifiers on snapshots
InitClassify == Init /\ sensitivity = 6

SpecClassify == InitClassify /\ [][NextClassify]_vars

NextDetect ==
    \/ Submit
    \/ \E c \in Classifiers : Finish(c)
    \/ DeadlineExpires
    \/ \E c \in Classifiers : Yield(c)
    \/ TimeoutRaised
    \/ Return

NextRelease ==
    \/ ReleaseFrameHand
    \/ ReleaseFrameNoHand
    \/ QuietFrameHand
    \/ QuietFrameNoHand

\* the frame loop running for ever: while is_processing stays true the thread
\* of process_frames keeps taking frames (app.py lines 214-219)
InitRelease == Init /\ sensitivity = 6

SpecRelease == InitRelease /\ [][NextRelease]_vars /\ WF_vars(NextRelease)

NextSettings ==
    \/ SetSetting
    \/ ApplySettings
    \/ SettingsFrameHand

\* the settings menu at work while frames are processed
InitSettings == Init /\ sensitivity = 6

SpecSettings == InitSettings /\ [][NextSettings]_vars

\* the aggregator alone: calls of detect_gestures, task by task
InitDetect == Init /\ sensitivity = 6

SpecDetect == InitDetect /\ [][NextDetect]_vars

----------------------------------------------------------------------------
\* Properties

\* the relative moves among the sink calls of the last frame
Moves == {emitted[k] : k \in CallsOf(emitted, {"move"})}
HasMove == Moves # {}

\* the pointer position update_mouse reads from the tracker
PointerPosition == get_smoothed_position(position, prev_positions)

\* update_mouse was called in the last frame with last_raw_position None
InitCall == frame.called /\ frame.before.last_raw_position = None

\* C1: a call of update_mouse that finds last_raw_position None records the
\* pointer position, seeds position_history with 5 copies of it, sets last_delta
\* to (0,0) and gives the sink no relative move, whatever the gestures.
C1_InitRecordsWithoutMotion ==
    InitCall =>
        /\ last_raw_position = PointerPosition
        /\ position_history = [k \in 1..5 |-> PointerPosition]
        /\ last_delta = <<0, 0>>
        /\ ~HasMove

\* the case of C1 with the move gesture present and the pointer off the origin
C1_Witness ==
    /\ InitCall
    /\ "move" \in DOMAIN frame.gestures
    /\ PointerPosition # <<0, 0>>
    /\ last_raw_position = PointerPosition

\* C2: after a hand was detected and then one or more frames had no hand, the
\* first call of update_mouse gives the sink no relative move.
C2_NoMoveAfterGap == (frame.called /\ frame.log.gap) => ~HasMove

\* C3: after a frame without a hand last_raw_position is None and the frame
\* gave the sink no relative move.
C3_NoHandResets ==
    (frames > 0 /\ ~frame.hand) => (last_raw_position = None /\ ~HasMove)

\* the futures of the current detect_gestures call that are still pending
PendingFutures == {c \in Classifiers : fut[c].state = "pending"}
CallEnded == dg_pc \notin {"idle", "collecting"}

\* C4: when the deadline has expired with exactly one classifier unfinished (and
\* it stays unfinished), detect_gestures returns the merged results of the other
\* four.
C4_SlowClassifierDropped ==
    (CallEnded /\ expired /\ Cardinality(PendingFutures) = 1) =>
        /\ dg_pc = "returned"
        /\ gestures = MergeResults(fut, Classifiers \ PendingFutures)

\* C5: when a classifier raised and the collection ended before the deadline
\* expired, detect_gestures has returned, and the dict holds exactly the merged
\* results of the classifiers that returned.
C5_FaultIsolated ==
    (CallEnded /\ ~expired /\ \E c \in Classifiers : fut[c].state = "raised") =>
        /\ dg_pc = "returned"
        /\ gestures = MergeResults(fut, {c \in Classifiers : fut[c].state = "returned"})
        /\ last_gestures = gestures

\* the case of C5: drag_gesture raised, other classifiers reported gestures
C5_Witness ==
    /\ dg_pc = "returned"
    /\ ~expired
    /\ fut["drag_gesture"].state = "raised"
    /\ DOMAIN gestures = {"left_click", "move", "scroll", "scroll_direction"}

\* the gesture name of a button
ClickGesture(b) == IF b = "left" THEN "left_click" ELSE "right_click"
HeldBefore(b) ==
    IF b = "left" THEN frame.before.left_button_down ELSE frame.before.right_button_down
Held(b) == IF b = "left" THEN left_button_down ELSE right_button_down
Emitted(call) == \E k \in 1..Len(emitted) : emitted[k] = call

\* C6: in every frame with a hand and the cooldown over, a button whose click
\* gesture is present and which is not held is pressed and becomes held, and a
\* held button whose gesture is absent is released and becomes not held.
C6_ButtonsFollowGestures ==
    (frame.hand /\ now - frame.before.last_click_time > click_cooldown) =>
        \A b \in {"left", "right"} :
            /\ (ClickGesture(b) \in DOMAIN frame.gestures /\ ~HeldBefore(b)) =>
                   (Emitted(MouseDown(b)) /\ Held(b))
            /\ (ClickGesture(b) \notin DOMAIN frame.gestures /\ HeldBefore(b)) =>
                   (Emitted(MouseUp(b)) /\ ~Held(b))

ButtonCallEmitted == CallsOf(emitted, {"down", "up"}) # {}

\* C7 as stated: a button call is made only when more than the cooldown has
\* passed since the last button call (down or up) of an earlier frame.
C7_CooldownSinceAnyChange ==
    ButtonCallEmitted => now - frame.log.last_change > click_cooldown

\* C7: a button call is made only when more than the cooldown has passed since
\* the last button-down of an earlier frame.
C7_CooldownSinceLastDown ==
    ButtonCallEmitted => now - frame.log.last_down > click_cooldown

\* the case of C7: a release, more than the cooldown after the press
C7_Witness ==
    /\ Emitted(MouseUp("left"))
    /\ frame.log.last_down > 0
    /\ now - frame.log.last_down > click_cooldown

\* the call of update_mouse right after the initialising one
SecondCall ==
    /\ frame.called
    /\ frame.before.last_raw_position # None
    /\ frame.before.last_delta = <<0, 0>>
    /\ frame.before.position_history = [k \in 1..5 |-> frame.before.last_raw_position]

\* the raw displacement of the pointer on axis a in the last call, and its
\* magnitude scaled by the effective sensitivity (thousandths of a pixel)
Displacement(a) == frame.pointer_pos[a] - frame.before.last_raw_position[a]
ScaledMagnitude(a) ==
    Abs(Displacement(a)) * effective_sensitivity(frame.before.sensitivity, frame.palm_size)
MoveOn(m, a) == IF a = 1 THEN m.dx ELSE m.dy

\* on every axis whose scaled displacement exceeds the dead zone a move is
\* emitted, nonzero on that axis, with the sign of the displacement times dir
SecondCallMoves(dir) ==
    (SecondCall /\ "move" \in DOMAIN frame.gestures) =>
        \A a \in {1, 2} :
            ScaledMagnitude(a) > dead_zone_px =>
                /\ HasMove
                /\ \A m \in Moves : Sign(MoveOn(m, a)) = dir * Sign(Displacement(a))

C9_FirstSmoothedIsInput ==
    Len(prev_positions) = 1 => get_smoothed_position(position, prev_positions) = position

\* C10: a relative move is emitted only in a frame with move, or with drag
\* together with a click gesture or a button held when the frame began.
C10_MoveOnlyWhenEligible ==
    HasMove =>
        \/ "move" \in DOMAIN frame.gestures
        \/ /\ "drag" \in DOMAIN frame.gestures
           /\ \/ "left_click" \in DOMAIN frame.gestures
              \/ "right_click" \in DOMAIN frame.gestures
              \/ frame.before.left_button_down
              \/ frame.before.right_button_down

\* the case of C10: drag alone moves the cursor because the left button is held
C10_Witness ==
    /\ HasMove
    /\ DOMAIN frame.gestures = {"drag"}
    /\ frame.before.left_button_down
    /\ ~frame.before.right_button_down

\* the scroll calls among the sink calls of the last frame, in order
Scrolls == [k \in 1..Cardinality(CallsOf(emitted, {"scroll"})) |->
               emitted[CHOOSE j \in CallsOf(emitted, {"scroll"}) :
                   Cardinality({i \in CallsOf(emitted, {"scroll"}) : i <= j}) = k]]

\* C11: in every frame with a hand, when 'scroll' is in the gesture map with
\* scroll_direction d, exactly one scroll of -trunc(3d) is emitted if trunc(3d)
\* is not 0 and none otherwise; when 'scroll' is absent no scroll is emitted.
C11_ScrollFollowsDirection ==
    frame.hand =>
        IF "scroll" \in DOMAIN frame.gestures
        THEN LET a == int_tenths(3 * frame.gestures["scroll_direction"])
             IN  Scrolls = IF Abs(a) > 0 THEN <<Scroll(-a)>> ELSE <<>>
        ELSE Scrolls = <<>>

\* C14: after a frame without a hand the primary pointer's history is empty and
\* the pointer is not active.
C14_NoHandResetsPointer ==
    (frames > 0 /\ ~frame.hand) => (prev_positions = <<>> /\ ~pointer_active)

\* the sink calls update_mouse attempted in the last frame: applied, or raised
Attempted(call) == Emitted(call) \/ frame.failed = call

\* C12: when a sink call raised inside update_mouse, the loop of process_frames
\* is still running after the frame.
C12_SinkFailureKeepsLoop == frame.failed # None => processing = "running"

\* the case of C12: a frame was processed after a frame whose relative move
\* raised, and the controller kept what it had stored before the call
C12_Witness ==
    /\ frame.prev_failed # None
    /\ frame.prev_failed.kind = "move"
    /\ frame.called
    /\ frame.before.last_delta # <<0, 0>>
    /\ processing = "running"

\* C13: when a button-down raised in the sink in the previous frame and the same
\* click gesture is present in this frame, update_mouse does not attempt that
\* button-down in this frame.
C13_NoRetryOfButtonDown ==
    \A b \in {"left", "right"} :
        (/\ frame.prev_failed = MouseDown(b)
         /\ frame.called
         /\ ClickGesture(b) \in DOMAIN frame.gestures) => ~Attempted(MouseDown(b))

\* C15: update_frame never blocks on frame_queue, and when it has returned for
\* frame f, f is the item in frame_queue or a consumer has taken f.
C15_NewestFrameWins ==
    /\ gui_pc = "put" => ~full(frame_queue)
    /\ (gui_pc = "idle" /\ offered # 0) => (frame_queue = <<offered>> \/ offered \in taken)

\* C16: at most one thread is inside an iteration of process_frames.
C16_OneProcessingThread == Cardinality({t \in 1..MaxThreads : threads[t] = "busy"}) <= 1

\* what classifier c made of the last snapshot
ResultOf(c) == classified.results[c].result
HasPoints(S) == S \subseteq DOMAIN classified.snapshot

\* C17: a classifier given a snapshot that lacks a point it reads returns the
\* empty dict: it does not raise and reports nothing.
C17_MissingPointsGiveEmpty ==
    classified # None =>
        \A c \in Classifiers :
            ~HasPoints(points_read(c)) => classified.results[c] = Returned(EmptyMap)

\* the case of C17: only the thumb is missing; the click classifiers report
\* nothing while move and scroll still report
C17_Witness ==
    /\ classified # None
    /\ DOMAIN classified.snapshot = PointNames \ {"thumb"}
    /\ ResultOf("left_click") = EmptyMap
    /\ ResultOf("right_click") = EmptyMap
    /\ "move" \in DOMAIN ResultOf("move_gesture")
    /\ "scroll" \in DOMAIN ResultOf("scroll_gesture")

\* the thumb-index distance of the last snapshot and the click threshold T, in
\* hundredths of a pixel
ThumbIndexDistance == distance(classified.snapshot["thumb"], classified.snapshot["index"])
ClickThreshold == classified.config.left_click * classified.palm_size

\* left_click on the last snapshot with the thumb one pixel further from the index
FurtherLeftClick ==
    classify("left_click",
             [classified.snapshot EXCEPT !["thumb"] = Plus(@, <<1, 0>>)],
             classified.palm_size, classified.config).result

\* the confidence of left_click falls strictly as the thumb moves away, as long
\* as the further position is still reported
LeftClickDecreases ==
    ("left_click" \in DOMAIN ResultOf("left_click") /\ "left_click" \in DOMAIN FurtherLeftClick)
        => FurtherLeftClick["left_click"] < ResultOf("left_click")["left_click"]

GestureNames == {"left_click", "right_click", "move", "drag", "scroll", "scroll_direction"}

ScrollSpeed == Abs(ResultOf("scroll_gesture")["scroll_direction"])
ScrollDetected == classified # None /\ "scroll" \in DOMAIN ResultOf("scroll_gesture")
StraightnessLevels == {0, 250, 409, 500, 750, 1000}

TrackingCall == frame.called /\ frame.before.last_raw_position # None

\* the delta of the last call on axis a after the dead zone and the inversion
\* (thousandths of a pixel), computed from the newest raw position alone
AdjustedDelta(a) ==
    invert(apply_dead_zone(axis_delta(frame.pointer_pos[a],
                                      frame.before.last_raw_position[a],
                                      effective_sensitivity(frame.before.sensitivity,
                                                            frame.palm_size))))

\* the move the newest raw position alone gives after a still history
RawOnlyMove(a) == movement(smooth_delta(AdjustedDelta(a), TRUE, 0))

\* C21: the delta of a tracking frame comes from a weighted blend of the five
\* history entries (ascending positive weights summing to 1), not from the
\* newest raw position alone: after four entries at the old position and one
\* at the new, the move on an axis beyond the dead zone is strictly smaller
\* than the move the newest position alone would give.
C21_MoveBlendsHistory ==
    (SecondCall /\ HasMove) =>
        \A a \in {1, 2} :
            ScaledMagnitude(a) > dead_zone_px =>
                \A m \in Moves : Abs(MoveOn(m, a)) < Abs(RawOnlyMove(a))

\* the relative move the previous frame emitted on axis a, 0 when it emitted none
PreviousMove(a) ==
    LET q == frame.prev_emitted
    IN  IF CallsOf(q, {"move"}) = {} THEN 0
        ELSE MoveOn(q[CHOOSE k \in CallsOf(q, {"move"}) : TRUE], a)

\* C22: the relative move emitted in a frame is, on each axis, 0.7 times the
\* frame's dead-zone-adjusted delta plus 0.3 times the relative move emitted in
\* the previous frame.
C22_MoveBlendsPreviousMove ==
    (TrackingCall /\ HasMove) =>
        \A a \in {1, 2}, m \in Moves :
            10 * MoveOn(m, a) = 7 * AdjustedDelta(a) + 3 * PreviousMove(a)

\* the axis delta of the last call before the dead zone (thousandths of a pixel)
RawDelta(a) ==
    axis_delta(frame.pointer_pos[a], frame.before.last_raw_position[a],
               effective_sensitivity(frame.before.sensitivity, frame.palm_size))

\* the dead zone of size z on an axis delta d
DeadZoneOf(z, d) == IF Abs(d) < z THEN 0 ELSE Sign(d) * (Abs(d) - z)

\* the move of the last call on axis a when the dead zone has size z
MoveWithDeadZone(z, a) ==
    movement(smooth_delta(invert(DeadZoneOf(z, RawDelta(a))), TRUE,
                          frame.before.last_delta[a]))

\* C23: the dead zone update_mouse applies is the configured value, the
\* dead_zone attribute the controller has when the frame begins: the move
\* emitted is the one a dead zone of that size gives, and none is emitted when it
\* zeroes both axes.
C23_ConfiguredDeadZone ==
    (TrackingCall /\ "move" \in DOMAIN frame.gestures) =>
        LET z == frame.dead_zone
        IN  IF \A a \in {1, 2} : DeadZoneOf(z, RawDelta(a)) = 0
            THEN ~HasMove
            ELSE Moves = {MoveRel(MoveWithDeadZone(z, 1), MoveWithDeadZone(z, 2))}

\* C30: after MainWindow is constructed and after every apply_settings, the
\* five thresholds and the scroll base_speed, max_speed and straightness_factor
\* of the detector's config equal the values in Settings.
C30_ConfigFollowsSettings ==
    settings_pc \in {"constructed", "applied"} => config = applied_config(settings)

\* the drag classifier on the last snapshot, as C24 states it: a finger is
\* clenched when its tip-to-palm distance is below curl_threshold times twice
\* the knuckle-to-palm distance (curl ratio in thousandths)
DragPointsPresent == classified # None /\ HasPoints(required_points("drag_gesture"))
CurlThreshold == classified.config.drag * 20
Extended(mcp) == 2 * distance(classified.snapshot[mcp], classified.snapshot["palm_center"])
CurlRatio(tip, mcp) ==
    (1000 * distance(classified.snapshot[tip], classified.snapshot["palm_center"]))
        \div Extended(mcp)
Clenched(tip, mcp) ==
    1000 * distance(classified.snapshot[tip], classified.snapshot["palm_center"])
        < CurlThreshold * Extended(mcp)
PointingDown(tip, mcp) == classified.snapshot[tip][2] > classified.snapshot[mcp][2]
BothClenched == Clenched("ring", "mcp_ring") /\ Clenched("pinky", "mcp_pinky")
BothPointingDown == PointingDown("ring", "mcp_ring") /\ PointingDown("pinky", "mcp_pinky")
DragExpected ==
    IF BothClenched
    THEN "drag" :> Min(100, Max(0, 100 - ((CurlRatio("ring", "mcp_ring")
                                            + CurlRatio("pinky", "mcp_pinky")) * 100)
                                               \div (2 * CurlThreshold)))
    ELSE IF BothPointingDown THEN "drag" :> 70
    ELSE EmptyMap

\* C24: with the five drag points present the drag classifier returns a result
\* exactly when ring and pinky are both clenched or both point down; the
\* confidence is 1 - mean curl ratio / curl_threshold kept within [0,1] when
\* both are clenched, and 0.7 when only the pointing-down condition holds.
C24_DragResult ==
    DragPointsPresent => classified.results["drag_gesture"] = Returned(DragExpected)

\* the snapshots in which no knuckle lies on the palm centre
KnucklesOffPalm == Extended("mcp_ring") > 0 /\ Extended("mcp_pinky") > 0
DragAwayFromPalm == (DragPointsPresent /\ KnucklesOffPalm) => C24_DragResult

\* a finger of the last snapshot points up (its tip above its PIP joint) or down
PointsUp(f) == classified.snapshot[f][2] < classified.snapshot["pip_" \o f][2]
PointsDown(f) == classified.snapshot[f][2] > classified.snapshot["pip_" \o f][2]
ScrollPointsPresent == classified # None /\ HasPoints(required_points("scroll_gesture"))

\* C25: the scroll classifier returns no result when middle and ring finger
\* point in different vertical directions; when it returns a result, the
\* scroll_direction is negative for fingers pointing up and positive for fingers
\* pointing down.
C25_DirectionFollowsFingers ==
    ScrollPointsPresent =>
        /\ (PointsUp("middle") /\ PointsDown("ring")) => ResultOf("scroll_gesture") = EmptyMap
        /\ (PointsDown("middle") /\ PointsUp("ring")) => ResultOf("scroll_gesture") = EmptyMap
        /\ "scroll" \in DOMAIN ResultOf("scroll_gesture") =>
               /\ PointsUp("middle") => ResultOf("scroll_gesture")["scroll_direction"] < 0
               /\ PointsDown("middle") => ResultOf("scroll_gesture")["scroll_direction"] > 0

\* the case of C25: both fingers point down and touch, the scroll goes down
C25_Witness ==
    /\ ScrollPointsPresent
    /\ PointsDown("middle")
    /\ PointsDown("ring")
    /\ "scroll" \in DOMAIN ResultOf("scroll_gesture")
    /\ ResultOf("scroll_gesture")["scroll_direction"] > 0

\* the other case of C25: fingers pointing in different directions give no
\* scroll although their tips touch
C25_MixedDirections ==
    /\ ScrollPointsPresent
    /\ PointsUp("middle")
    /\ PointsDown("ring")
    /\ within_threshold(distance(classified.snapshot["middle"], classified.snapshot["ring"]),
                        classified.config.scroll, classified.palm_size)

\* the button calls the last frame gave the sink for button b, in order
ButtonCalls(b) ==
    SelectSeq(emitted, LAMBDA call : call.kind \in {"down", "up"} /\ call.button = b)

\* C26: for each button the calls given to the sink alternate, starting with a
\* button-down, and the held flag is true exactly when the last call for the
\* button was a button-down.
C26_ButtonCallsAlternate ==
    \A b \in {"left", "right"} :
        /\ Held(b) <=> log.last_action[b] = "down"
        /\ Len(ButtonCalls(b)) <= 1
        /\ Emitted(MouseDown(b)) => frame.log.last_action[b] \in {"none", "up"}
        /\ Emitted(MouseUp(b)) => frame.log.last_action[b] = "down"

\* the case of C26: the left button is pressed again after a press and a release
C26_Witness ==
    /\ Emitted(MouseDown("left"))
    /\ frame.log.last_action["left"] = "up"
    /\ left_button_down

\* the click gesture of button b comes in no later frame
NeverAgain(b) == <>[](ClickGesture(b) \notin DOMAIN frame.gestures)

\* C27: a held button is eventually released once its click gesture is never
\* present again, whether a hand making other gestures or no hand at all is
\* seen in the later frames.
C27_HeldButtonReleased ==
    /\ NeverAgain("left") => <>[](~left_button_down)
    /\ NeverAgain("right") => <>[](~right_button_down)

\* the later frames all show a hand
HandStays == <>[](frame.hand /\ frame.called)
ReleasedWhileHandStays ==
    /\ (HandStays /\ NeverAgain("left")) => <>[](~left_button_down)
    /\ (HandStays /\ NeverAgain("right")) => <>[](~right_button_down)

\* C28: the map detect_gestures returns does not depend on the order in which
\* the classifier tasks complete: the classifiers write disjoint key sets, and
\* whatever the order of collection the map is the merge of their results.
C28_OrderIndependent ==
    /\ \A c, d \in Classifiers :
           c # d => DOMAIN fut[c].result \cap DOMAIN fut[d].result = {}
    /\ dg_pc = "collecting" => gestures = MergeResults(fut, yielded)
    /\ dg_pc = "returned" => gestures = MergeResults(fut, Classifiers)

\* the case of C28: all five classifiers reported within the deadline
C28_Witness ==
    /\ dg_pc = "returned"
    /\ ~expired
    /\ \A c \in Classifiers : fut[c].state = "returned" /\ fut[c].result # EmptyMap
    /\ DOMAIN gestures = GestureNames

\* two of the orders of C28: the collection has seen only the scroll result,
\* or only the left_click result, of the same five finished tasks
ScrollCollectedFirst ==
    /\ dg_pc = "collecting"
    /\ \A c \in Classifiers : fut[c].state = "returned" /\ fut[c].result # EmptyMap
    /\ yielded = {"scroll_gesture"}
LeftClickCollectedFirst ==
    /\ dg_pc = "collecting"
    /\ \A c \in Classifiers : fut[c].state = "returned" /\ fut[c].result # EmptyMap
    /\ yielded = {"left_click"}

\* C29: the processing thread never blocks when it publishes a processed
\* frame: its put finds processed_frame_queue empty, and the queue never holds
\* more than one frame.
C29_PublishNeverBlocks ==
    /\ \A t \in 1..MaxThreads : threads[t] # "blocked_put"
    /\ Len(processed_frame_queue) <= 1

\* as long as only the first processing thread was ever started, no put waits
OneThreadStarted == \A t \in 2..MaxThreads : threads[t] = "unborn"
SinglePublisherNeverBlocks ==
    OneThreadStarted => \A t \in 1..MaxThreads : threads[t] # "blocked_put"

====
